---- MODULE Spec2Model ----
(***************************************************************************)
(* Model of internal/backends/gl/fonts.rs: the process-wide FontCache      *)
(* (loaded-font map, glyph-coverage table, font database, shaping-backend  *)
(* registry), font resolution with script/character fallback, the          *)
(* has_glyph_for_char query, the font registration entry points and the    *)
(* line layout engine layout_text_lines.                                   *)
(*                                                                         *)
(* Option<T> values are modelled as sequences of length at most one:       *)
(* None is <<>> and Some(x) is <<x>>.  Face ids of the font database are   *)
(* indexes into available_fonts, shaping-backend font ids are indexes into *)
(* text_context.  f32 sizes are modelled as integers.                      *)
(***************************************************************************)
EXTENDS Integers, Sequences, FiniteSets, TLC

VARIABLES
    loaded_fonts,          \* FontCache.loaded_fonts: FontCacheKey -> LoadedFont
    loaded_font_coverage,  \* FontCache.loaded_font_coverage: face id -> GlyphCoverage
    text_context,          \* shaping backend: font id i was registered for face text_context[i]
    available_fonts,       \* FontCache.available_fonts: the faces of the font database
    available_families,    \* FontCache.available_families (computed once, at construction)
    last,                  \* the call in progress / just returned, with what it did
    prev                   \* an earlier font() call the caller still remembers

vars == <<loaded_fonts, loaded_font_coverage, text_context, available_fonts,
          available_families, last, prev>>

-----------------------------------------------------------------------------
(* Bounds of the model *)

MaxTextLen == 2
MaxCandidates == 2
MaxRegistered == 2
MaxStringLen == 3

-----------------------------------------------------------------------------
(* Program constants *)

DEFAULT_FONT_SIZE == 12
DEFAULT_FONT_WEIGHT == 400
U16 == 65536

None == <<>>
Some(x) == <<x>>

EmptyMap == [x \in {} |-> TRUE]

\* HashMap::insert
MapInsert(m, k, v) == [x \in (DOMAIN m) \cup {k} |-> IF x = k THEN v ELSE m[x]]

Range(s) == {s[i] : i \in DOMAIN s}

-----------------------------------------------------------------------------
(* Characters and their Unicode properties (the sample alphabet) *)

\* 'a' and U+00FE (thorn) are Latin letters, "zh" is U+4E2D, "check" is
\* U+2713, " " the space and "bel" U+0007
Chars == {"a", "thorn", "zh", "check", " ", "bel"}

\* char::is_control: U+0007 BEL is a control character, the space is not
is_control(ch) == ch = "bel"

\* mutant: white space is not recognised
is_whitespace_never(ch) == FALSE

\* char::is_whitespace: the space is white space, BEL is not
is_whitespace(ch) == ch = " "

\* unicode_script: 'a' and thorn are Latin, U+4E2D is Han, the check mark,
\* the space and the control characters are Common
script(ch) ==
    CASE ch \in {"a", "thorn"} -> "Latin"
      [] ch = "zh" -> "Han"
      [] OTHER -> "Common"

\* Script::Common, Script::Inherited, Script::Unknown: checked per character
PerCharScript(s) == s \in {"Common", "Inherited", "Unknown"}

-----------------------------------------------------------------------------
(* The font database *)

\* the family set_sans_serif_family() installs at construction
sans_serif_family == "Sans"

Face(family, weight, glyphs, source) ==
    [family |-> family, weight |-> weight, glyphs |-> glyphs, source |-> source]

\* the system fonts load_system_fonts() finds
SystemFonts ==
    << Face("Sans", 400, {"a"}, "/sys/sans.ttf"),
       Face("Han", 400, {"zh", "check"}, "/sys/han.ttf"),
       Face("Sym", 400, {"check"}, "/sys/sym.ttf") >>

\* font data an application may register from memory
MemoryFonts == { Face("Sans", 700, {"a", "thorn"}, "binary") }

\* the file system seen by register_font_from_path: readable font files
FontFiles == [p \in {"/app/extra.ttf"} |-> Face("Extra", 400, {"zh"}, p)]

Paths == {"/app/extra.ttf", "/app/link.ttf", "/app/none.ttf"}

\* Path::canonicalize: a symlink resolves to its target, a missing path fails
canonicalize(path) ==
    CASE path = "/app/link.ttf" -> Some("/app/extra.ttf")
      [] path = "/app/extra.ttf" -> Some("/app/extra.ttf")
      [] OTHER -> None

\* the faces of the database whose family is `name`, as face ids
FamilyFaces(db, name) == {i \in DOMAIN db : db[i].family = name}

Max(S) == CHOOSE x \in S : \A y \in S : y <= x
Min(S) == CHOOSE x \in S : \A y \in S : x <= y

\* fontdb's weight step of CSS font matching: the exact weight, else 500 for
\* 400..449, else 400 for 450..500, else the closest lighter then the closest
\* heavier weight (w <= 500) or the closest heavier then the closest lighter
MatchingWeight(ws, w) ==
    IF w \in ws THEN w
    ELSE IF w >= 400 /\ w < 450 /\ 500 \in ws THEN 500
    ELSE IF w >= 450 /\ w <= 500 /\ 400 \in ws THEN 400
    ELSE IF w <= 500
         THEN IF {x \in ws : x <= w} # {} THEN Max({x \in ws : x <= w}) ELSE Min(ws)
         ELSE IF {x \in ws : x >= w} # {} THEN Min({x \in ws : x >= w}) ELSE Max(ws)

\* fontdb::Database::query for one family (None is the generic SansSerif family,
\* Some(n) is Family::Name(n)) and a weight: the first face of the family with
\* the best matching weight, None when the family has no face
query(db, family, weight) ==
    LET name == IF family = None THEN sans_serif_family ELSE family[1]
        faces == FamilyFaces(db, name)
    IN  IF faces = {} THEN None
        ELSE LET mw == MatchingWeight({db[i].weight : i \in faces}, weight)
             IN  Some(Min({i \in faces : db[i].weight = mw}))

\* face.glyph_index(ch).is_some() inside with_face_data(face_id, ..)
glyph_index(db, face_id, ch) == ch \in db[face_id].glyphs

-----------------------------------------------------------------------------
(* Font requests and the loaded-font cache *)

FontRequest(family, weight, pixel_size, letter_spacing) ==
    [family |-> family, weight |-> weight, pixel_size |-> pixel_size,
     letter_spacing |-> letter_spacing]

\* Option::unwrap_or
unwrap_or(opt, default) == IF opt = None THEN default ELSE opt[1]

\* mutant: the pixel size is part of the key
FontCacheKeyWithSize(request) ==
    [family |-> unwrap_or(request.family, ""), weight |-> request.weight[1],
     pixel_size |-> request.pixel_size]

\* the cache key of a request: family.unwrap_or_default(), weight.unwrap()
FontCacheKey(request) ==
    [family |-> unwrap_or(request.family, ""), weight |-> request.weight[1]]

LoadedFont(femtovg_font_id, fontdb_face_id) ==
    [femtovg_font_id |-> femtovg_font_id, fontdb_face_id |-> fontdb_face_id]

\* `request.weight.unwrap() as u16`
AsU16(w) == w % U16

\* mutant: the substitute is queried at the default weight
ResolveFaceDefaultWeight(db, request) ==
    LET first == query(db, request.family, AsU16(request.weight[1]))
    IN  IF first # None THEN first ELSE query(db, None, DEFAULT_FONT_WEIGHT)

\* The face a cache miss resolves to: the query for the requested family, or
\* else the query for the generic sans-serif family; None is the panic
\* "there must be a sans-serif font face registered"
ResolveFace(db, request) ==
    LET weight == AsU16(request.weight[1])
        first == query(db, request.family, weight)
    IN  IF first # None THEN first ELSE query(db, None, weight)

\* The cache-miss path of load_single_font: resolve the face in the database,
\* register it with the shaping backend and insert the LoadedFont under the key.
load_font_face(c, db, request) ==
    LET cache_key == FontCacheKey(request)
        first == query(db, request.family, AsU16(request.weight[1]))
        face == ResolveFace(db, request)
        nqueries == IF first # None THEN 1 ELSE 2
    IN  IF face = None
        THEN [cache |-> c, font |-> LoadedFont(0, 0), key |-> cache_key,
              hit |-> FALSE, queries |-> nqueries, registrations |-> 0,
              panicked |-> TRUE]
        ELSE LET femtovg_font_id == Len(c.text_context) + 1
                 new_font == LoadedFont(femtovg_font_id, face[1])
             IN  [cache |-> [c EXCEPT
                               !.text_context = Append(@, face[1]),
                               !.loaded_fonts = MapInsert(@, cache_key, new_font)],
                  font |-> new_font, key |-> cache_key, hit |-> FALSE,
                  queries |-> nqueries, registrations |-> 1,
                  panicked |-> FALSE]

\* mutant: the cache is never consulted
load_single_font_uncached(c, db, request) == load_font_face(c, db, request)

\* mutant: a cached font is kept only while the database still resolves its
\* key to the same face
load_single_font_revalidated(c, db, request) ==
    IF /\ FontCacheKey(request) \in DOMAIN c.loaded_fonts
       /\ Some(c.loaded_fonts[FontCacheKey(request)].fontdb_face_id) = ResolveFace(db, request)
    THEN [cache |-> c, font |-> c.loaded_fonts[FontCacheKey(request)],
          key |-> FontCacheKey(request), hit |-> TRUE, queries |-> 0,
          registrations |-> 0, panicked |-> FALSE]
    ELSE load_font_face(c, db, request)

\* FontCache::load_single_font on the cache c = [loaded_fonts, text_context,
\* loaded_font_coverage] and the database db.  Returns the cache after the
\* call, the LoadedFont, and what the call did: whether it was a cache hit,
\* the number of database queries and of shaping-backend registrations.
load_single_font(c, db, request) ==
    IF FontCacheKey(request) \in DOMAIN c.loaded_fonts
    THEN [cache |-> c, font |-> c.loaded_fonts[FontCacheKey(request)],
          key |-> FontCacheKey(request), hit |-> TRUE, queries |-> 0,
          registrations |-> 0, panicked |-> FALSE]
    ELSE load_font_face(c, db, request)

-----------------------------------------------------------------------------
(* The glyph coverage table *)

\* GlyphCoverage::default()
GlyphCoverage == [supported_scripts |-> EmptyMap, exact_glyph_coverage |-> EmptyMap]

\* loaded_font_coverage.entry(face_id).or_default()
entry_or_default(table, face_id) ==
    IF face_id \in DOMAIN table THEN table ELSE MapInsert(table, face_id, GlyphCoverage)

\* mutant: emptiness is tested before improvement
ResultCompleteFirst(old_scripts, old_chars, remaining_scripts, remaining_chars) ==
    IF remaining_scripts = 0 /\ remaining_chars = 0
    THEN "Complete"
    ELSE IF remaining_scripts < old_scripts \/ remaining_chars < old_chars
         THEN "Improved"
         ELSE "Incomplete"

\* mutant: only the scripts are compared, the characters are forgotten
ResultScriptsOnly(old_scripts, old_chars, remaining_scripts, remaining_chars) ==
    IF remaining_scripts < old_scripts
    THEN "Improved"
    ELSE IF remaining_scripts = 0 /\ remaining_chars = 0
         THEN "Complete"
         ELSE "Incomplete"

\* the result of a coverage check, decided from the sizes of the uncovered
\* sets before and after it
GlyphCoverageCheckResult(old_scripts, old_chars, remaining_scripts, remaining_chars) ==
    IF remaining_scripts < old_scripts \/ remaining_chars < old_chars
    THEN "Improved"
    ELSE IF remaining_scripts = 0 /\ remaining_chars = 0
         THEN "Complete"
         ELSE "Incomplete"

\* FontCache::check_and_update_script_coverage.  scripts is the map from a
\* script without coverage to its sample character, chars the set of
\* characters without coverage.  Returns the coverage table and the two
\* collections after the check, the result, and the probes of the face it made.
check_and_update_script_coverage(table, db, scripts, chars, face_id) ==
    LET table1 == entry_or_default(table, face_id)
        coverage == table1[face_id]
        known_scripts == coverage.supported_scripts
        known_chars == coverage.exact_glyph_coverage
        scripts_that_need_checking == {s \in DOMAIN scripts : s \notin DOMAIN known_scripts}
        chars_that_need_checking == {ch \in chars : ch \notin DOMAIN known_chars}
        \* retain(): keep what is unknown or known to be unsupported
        retained_scripts ==
            {s \in DOMAIN scripts : s \in scripts_that_need_checking \/ ~known_scripts[s]}
        retained_chars ==
            {ch \in chars : ch \in chars_that_need_checking \/ ~known_chars[ch]}
        probing == (scripts_that_need_checking # {} \/ chars_that_need_checking # {})
                   /\ face_id \in DOMAIN db
        probed_scripts == IF probing THEN scripts_that_need_checking ELSE {}
        probed_chars == IF probing THEN chars_that_need_checking ELSE {}
        new_scripts ==
            [s \in (DOMAIN known_scripts) \cup probed_scripts |->
                IF s \in probed_scripts THEN glyph_index(db, face_id, scripts[s])
                ELSE known_scripts[s]]
        new_chars ==
            [ch \in (DOMAIN known_chars) \cup probed_chars |->
                IF ch \in probed_chars THEN glyph_index(db, face_id, ch)
                ELSE known_chars[ch]]
        remaining_scripts ==
            {s \in retained_scripts : ~(s \in probed_scripts /\ new_scripts[s])}
        remaining_chars ==
            {ch \in retained_chars : ~(ch \in probed_chars /\ new_chars[ch])}
    IN  [table |-> [table1 EXCEPT ![face_id] =
                        [supported_scripts |-> new_scripts,
                         exact_glyph_coverage |-> new_chars]],
         scripts |-> [s \in remaining_scripts |-> scripts[s]],
         chars |-> remaining_chars,
         result |-> GlyphCoverageCheckResult(Cardinality(DOMAIN scripts),
                                             Cardinality(chars),
                                             Cardinality(remaining_scripts),
                                             Cardinality(remaining_chars)),
         probed_scripts |-> probed_scripts,
         probed_chars |-> probed_chars]

\* mutant: the face is probed on every call and the table overwritten
face_supports_char_unmemoized(table, db, face_id, ch) ==
    LET table1 == entry_or_default(table, face_id)
        probe == face_id \in DOMAIN db /\ glyph_index(db, face_id, ch)
    IN  IF PerCharScript(script(ch))
        THEN [table |-> [table1 EXCEPT ![face_id].exact_glyph_coverage =
                             MapInsert(@, ch, probe)],
              result |-> probe, probes |-> 1]
        ELSE [table |-> [table1 EXCEPT ![face_id].supported_scripts =
                             MapInsert(@, script(ch), probe)],
              result |-> probe, probes |-> 1]

\* FontCache::face_supports_char: the memoized answer for one character, by
\* exact character for the per-character scripts and by script otherwise.
\* Returns the table after the call, the answer and the number of probes.
face_supports_char(table, db, face_id, ch) ==
    LET table1 == entry_or_default(table, face_id)
        coverage == table1[face_id]
        probe == face_id \in DOMAIN db /\ glyph_index(db, face_id, ch)
    IN  IF PerCharScript(script(ch))
        THEN IF ch \in DOMAIN coverage.exact_glyph_coverage
             THEN [table |-> table1, result |-> coverage.exact_glyph_coverage[ch],
                   probes |-> 0]
             ELSE [table |-> [table1 EXCEPT ![face_id].exact_glyph_coverage =
                                  MapInsert(@, ch, probe)],
                   result |-> probe, probes |-> 1]
        ELSE IF script(ch) \in DOMAIN coverage.supported_scripts
             THEN [table |-> table1, result |-> coverage.supported_scripts[script(ch)],
                   probes |-> 0]
             ELSE [table |-> [table1 EXCEPT ![face_id].supported_scripts =
                                  MapInsert(@, script(ch), probe)],
                   result |-> probe, probes |-> 1]

-----------------------------------------------------------------------------
(* font(): resolution with fallback *)

\* FontCache::is_known_family: the family is in the set computed at construction
is_known_family(families, request) ==
    IF request.family = None THEN FALSE ELSE request.family[1] \in families

\* FontCache::font_fallbacks_for_request: one request per family name the
\* platform enumerator returned, with the weight, pixel size and letter spacing
\* of the primary request, filtered to the known families
font_fallbacks_for_request(families, request, enumerated) ==
    LET candidate(i) == FontRequest(Some(enumerated[i]), request.weight,
                                    request.pixel_size, request.letter_spacing)
    IN  SelectSeq([i \in DOMAIN enumerated |-> candidate(i)],
                  LAMBDA r : is_known_family(families, r))

\* the characters of the reference text that need a glyph
NeedsGlyph(ch) == ~(is_control(ch) \/ is_whitespace(ch))

\* scripts_required: for every script of the text that is checked per script,
\* the sample character (HashMap::insert keeps the last one of the text)
scripts_required(text) ==
    LET at(s) == {i \in DOMAIN text : NeedsGlyph(text[i]) /\ script(text[i]) = s}
        found == {script(text[i]) : i \in {j \in DOMAIN text :
                      NeedsGlyph(text[j]) /\ ~PerCharScript(script(text[j]))}}
    IN  [s \in found |-> text[Max(at(s))]]

\* chars_required: the characters of the text that are checked one by one
chars_required(text) ==
    {text[i] : i \in {j \in DOMAIN text :
        NeedsGlyph(text[j]) /\ PerCharScript(script(text[j]))}}

\* what one load_single_font call did, without the cache it returned
LoadInfo(l) ==
    [key |-> l.key, font |-> l.font, hit |-> l.hit, queries |-> l.queries,
     registrations |-> l.registrations]

\* what one coverage check did; candidate is 0 for the primary font and the
\* position in the fallback list otherwise
CheckInfo(candidate, face_id, scripts, chars, chk) ==
    [candidate |-> candidate, face |-> face_id,
     scripts_before |-> scripts, chars_before |-> chars,
     scripts_after |-> chk.scripts, chars_after |-> chk.chars,
     result |-> chk.result,
     probed_scripts |-> chk.probed_scripts, probed_chars |-> chk.probed_chars]

\* mutant: a candidate is kept unless its check found nothing
accepted_unless_incomplete(accepted, result, loaded) ==
    IF result # "Incomplete" THEN Append(accepted, loaded) ELSE accepted

\* the closure's answer in font(): Some(fallback_font) when the check result
\* is Improved, None otherwise
accepted_after(accepted, result, loaded) ==
    IF result = "Improved" THEN Append(accepted, loaded) ELSE accepted

\* The filter_map over the fallback requests in font(): st is the state the
\* closure captures (cache, uncovered sets, last coverage result) together
\* with the fonts accepted so far and the record of loads and checks.
RECURSIVE walk_fallbacks(_, _, _, _)
walk_fallbacks(st, db, fallbacks, i) ==
    IF i > Len(fallbacks) \/ st.panicked THEN st
    ELSE IF st.coverage_result = "Complete"
         THEN walk_fallbacks(st, db, fallbacks, i + 1)
         ELSE LET l == load_single_font(st.cache, db, fallbacks[i])
                  chk == check_and_update_script_coverage(
                             l.cache.loaded_font_coverage, db, st.scripts, st.chars,
                             l.font.fontdb_face_id)
              IN  IF l.panicked
                  THEN [st EXCEPT !.panicked = TRUE, !.loads = Append(@, LoadInfo(l))]
                  ELSE walk_fallbacks(
                         [cache |-> [l.cache EXCEPT !.loaded_font_coverage = chk.table],
                          scripts |-> chk.scripts,
                          chars |-> chk.chars,
                          coverage_result |-> chk.result,
                          accepted |-> accepted_after(st.accepted, chk.result, l.font),
                          loads |-> Append(st.loads, LoadInfo(l)),
                          checks |-> Append(st.checks,
                                        CheckInfo(i, l.font.fontdb_face_id,
                                                  st.scripts, st.chars, chk)),
                          panicked |-> FALSE],
                         db, fallbacks, i + 1)

\* mutant: the entries are stamped with the default size
ScaledFontDefaultSize(loaded, pixel_size) ==
    [font |-> loaded, pixel_size |-> DEFAULT_FONT_SIZE]

\* ScaledFont { font, pixel_size: request.pixel_size.unwrap() }
ScaledFont(loaded, pixel_size) == [font |-> loaded, pixel_size |-> pixel_size]

\* FontCache::font on the cache c, the database db and the known families.
\* enumerated is the list of family names the platform's fallback enumerator
\* has for this request and text.  Returns the cache after the call, the Font
\* and the record of what the call did.
font_eval(c, db, families, req, scale_factor, reference_text, enumerated) ==
    LET request == [req EXCEPT
                      !.pixel_size =
                          Some(unwrap_or(req.pixel_size, DEFAULT_FONT_SIZE) * scale_factor),
                      !.weight = IF req.weight = None THEN Some(DEFAULT_FONT_WEIGHT)
                                 ELSE req.weight]
        primary == load_single_font(c, db, request)
        required_scripts == scripts_required(reference_text)
        required_chars == chars_required(reference_text)
        chk == check_and_update_script_coverage(
                   primary.cache.loaded_font_coverage, db, required_scripts,
                   required_chars, primary.font.fontdb_face_id)
        fallbacks == IF chk.result # "Complete"
                     THEN font_fallbacks_for_request(families, request, enumerated)
                     ELSE <<>>
        st0 == [cache |-> [primary.cache EXCEPT !.loaded_font_coverage = chk.table],
                scripts |-> chk.scripts,
                chars |-> chk.chars,
                coverage_result |-> chk.result,
                accepted |-> <<>>,
                loads |-> <<LoadInfo(primary)>>,
                checks |-> <<CheckInfo(0, primary.font.fontdb_face_id,
                                       required_scripts, required_chars, chk)>>,
                panicked |-> FALSE]
        st == walk_fallbacks(st0, db, fallbacks, 1)
        fonts == <<primary.font>> \o st.accepted
    IN  IF primary.panicked
        THEN [cache |-> c, panicked |-> TRUE, request |-> request,
              font |-> [fonts |-> <<>>, pixel_size |-> request.pixel_size[1]],
              scripts_required |-> required_scripts, chars_required |-> required_chars,
              fallbacks |-> <<>>, loads |-> <<LoadInfo(primary)>>, checks |-> <<>>]
        ELSE [cache |-> st.cache, panicked |-> st.panicked, request |-> request,
              font |-> [fonts |-> [i \in DOMAIN fonts |->
                                      ScaledFont(fonts[i], request.pixel_size[1])],
                        pixel_size |-> request.pixel_size[1]],
              scripts_required |-> required_scripts, chars_required |-> required_chars,
              fallbacks |-> [i \in DOMAIN fallbacks |-> fallbacks[i].family[1]],
              loads |-> st.loads, checks |-> st.checks]

-----------------------------------------------------------------------------
(* layout_text_lines: the line layout engine *)

(* A string is a sequence of one-byte characters: 'a', the space and the line
   feed "nl".  Byte offsets count from 0, so the slice string[start..index] is
   SubSeq(string, start + 1, index).  Lengths are integers; the measures of the
   backend below are all even, so that the halves the code takes are exact. *)

\* the arguments of one layout_text_lines call, with the answers of the
\* measurement backend that do not depend on the line: font_height is
\* measure_font(paint).height(), text_size_height is font.text_size(..).height
LayoutArgs(string, max_width, max_height, horizontal_alignment, vertical_alignment, wrap, elide, single_line, font_height, text_size_height) ==
    [string |-> string, max_width |-> max_width, max_height |-> max_height,
     horizontal_alignment |-> horizontal_alignment,
     vertical_alignment |-> vertical_alignment,
     wrap |-> wrap, elide |-> elide, single_line |-> single_line,
     font_height |-> font_height, text_size_height |-> text_size_height]

\* the advance of the glyph the shaper produces for a character
advance_x(ch) ==
    CASE ch = "a" -> 20
      [] ch = " " -> 10
      [] ch = "ellipsis" -> 20
      [] OTHER -> 0

\* text_context.measure_text(0., 0., line, paint).width(): the advances of the
\* glyphs of the line, one glyph per character
RECURSIVE measure_text(_)
measure_text(line) ==
    IF line = <<>> THEN 0
    ELSE advance_x(line[1]) + measure_text(Tail(line))

\* f32::min
f32_min(x, y) == IF x <= y THEN x ELSE y

\* mutant: the text is taken to be one line high in every mode
text_height_one_line(a) == a.font_height

\* the closure text_height: the font height for a single line, else the
\* height font.text_size() computes for the string
text_height(a) ==
    IF a.single_line THEN a.font_height ELSE a.text_size_height

\* the baseline-origin y by vertical alignment
baseline_y(a) ==
    CASE a.vertical_alignment = "top" -> 0
      [] a.vertical_alignment = "center" ->
             (a.max_height \div 2) - (text_height(a) \div 2)
      [] a.vertical_alignment = "bottom" -> a.max_height - text_height(a)

\* mutant: the measured width is not limited to the width of the box
process_line_unclamped(a, text, y, start, line_width) ==
    [text |-> text,
     x |-> CASE a.horizontal_alignment = "left" -> 0
             [] a.horizontal_alignment = "center" ->
                    (a.max_width \div 2) - (line_width \div 2)
             [] a.horizontal_alignment = "right" -> a.max_width - line_width,
     y |-> y, start |-> start, width |-> line_width]

\* the closure process_line: the x origin by horizontal alignment from the
\* measured width of the line, and the record the sink layout_line receives
process_line(a, text, y, start, line_width) ==
    [text |-> text,
     x |-> CASE a.horizontal_alignment = "left" -> 0
             [] a.horizontal_alignment = "center" ->
                    (a.max_width \div 2) - (f32_min(a.max_width, line_width) \div 2)
             [] a.horizontal_alignment = "right" ->
                    a.max_width - f32_min(a.max_width, line_width),
     y |-> y, start |-> start, width |-> line_width]

\* string[start..].find('\n').map_or(string.len(), |i| start + i + 1)
find_line_end(string, start) ==
    LET feeds == {i \in (start + 1)..Len(string) : string[i] = "nl"}
    IN  IF feeds = {} THEN Len(string) ELSE Min(feeds)

\* the loop over text_metrics.glyphs: the byte index of the first glyph at
\* which the accumulated advance reaches w, None when no glyph does
RECURSIVE first_glyph_past(_, _, _, _)
first_glyph_past(line, w, i, current_x) ==
    IF i > Len(line) THEN None
    ELSE IF current_x + advance_x(line[i]) >= w THEN Some(i - 1)
    ELSE first_glyph_past(line, w, i + 1, current_x + advance_x(line[i]))

\* mutant: the vertical cursor stays where it is
line_done_keeps_y(st, a, text, line_width, index, branch) ==
    [st EXCEPT !.lines = Append(@, process_line(a, text, st.y, st.start, line_width)),
               !.branches = Append(@, branch),
               !.start = index]

\* a line is reported to the sink, the vertical cursor moves one font height
\* down and the byte cursor to index
line_done(st, a, text, line_width, index, branch) ==
    [st EXCEPT !.lines = Append(@, process_line(a, text, st.y, st.start, line_width)),
               !.branches = Append(@, branch),
               !.y = @ + a.font_height,
               !.start = index]

\* mutant: the break offset is taken from the start of the string, not from
\* the byte cursor
wrapped_line_from_string_start(st, a, break_index) ==
    IF break_index = 0
    THEN [st EXCEPT !.pc = "returned", !.break_text = Append(@, break_index)]
    ELSE LET index == break_index
             line == SubSeq(a.string, st.start + 1, index)
         IN  [line_done(st, a, line, measure_text(line), index, "wrapped")
                 EXCEPT !.break_text = Append(@, break_index)]

\* the wrapping branch: the line ends where break_text says; index 0 leaves
\* the loop
wrapped_line(st, a, break_index) ==
    IF break_index = 0
    THEN [st EXCEPT !.pc = "returned", !.break_text = Append(@, break_index)]
    ELSE LET index == st.start + break_index
             line == SubSeq(a.string, st.start + 1, index)
         IN  [line_done(st, a, line, measure_text(line), index, "wrapped")
                 EXCEPT !.break_text = Append(@, break_index)]

\* the other branch: the line is the rest of the string (single_line) or runs
\* up to and including the next line feed; it is cut at the first glyph past
\* the width when it is too wide or is the last row of an elided text
plain_line(st, a) ==
    LET index == IF a.single_line THEN Len(a.string)
                 ELSE find_line_end(a.string, st.start)
        line == SubSeq(a.string, st.start + 1, index)
        line_width == measure_text(line)
        elide_last_line == /\ a.elide
                           /\ index < Len(a.string)
                           /\ st.y + 2 * a.font_height > a.max_height
        w == a.max_width - (IF a.elide THEN measure_text(<<"ellipsis">>) ELSE 0)
        cut == first_glyph_past(line, w, 1, 0)
    IN  IF line_width > a.max_width \/ elide_last_line
        THEN IF cut # None
             THEN IF a.elide
                  THEN line_done(st, a, Append(SubSeq(line, 1, cut[1]), "ellipsis"),
                                 line_width, index, "elided")
                  ELSE line_done(st, a, SubSeq(line, 1, cut[1]),
                                 line_width, index, "truncated")
             ELSE IF elide_last_line
                  THEN line_done(st, a, Append(line, "ellipsis"),
                                 line_width, index, "elided")
                  ELSE line_done(st, a, line, line_width, index, "plain")
        ELSE line_done(st, a, line, line_width, index, "plain")

\* mutant: a break at offset 0 is taken like any other
lines_loop_degenerate_break(st, a, break_index) ==
    IF ~(st.start < Len(a.string) /\ st.y + a.font_height <= a.max_height)
    THEN [st EXCEPT !.pc = "returned"]
    ELSE IF a.wrap /\ (~a.elide \/ st.y + 2 * a.font_height <= a.max_height)
         THEN LET index == st.start + break_index
                  line == SubSeq(a.string, st.start + 1, index)
              IN  [line_done(st, a, line, measure_text(line), index, "wrapped")
                      EXCEPT !.break_text = Append(@, break_index)]
         ELSE plain_line(st, a)

\* one pass of the 'lines loop: the loop condition, then one of the two
\* branches; break_index is what break_text answers for the rest of the string
lines_loop(st, a, break_index) ==
    IF ~(st.start < Len(a.string) /\ st.y + a.font_height <= a.max_height)
    THEN [st EXCEPT !.pc = "returned"]
    ELSE IF a.wrap /\ (~a.elide \/ st.y + 2 * a.font_height <= a.max_height)
         THEN wrapped_line(st, a, break_index)
         ELSE plain_line(st, a)

\* the length of the font-id array init_paint hands to femtovg
femtovg_fonts_len == 8

\* Font::init_paint: the array starts as femtovg_fonts_len copies of the id of
\* the first font, then slot i is written for every font i of the Font; a
\* write behind the last slot is the index-out-of-bounds panic
init_paint_eval(f) ==
    [panicked |-> Len(f.fonts) > femtovg_fonts_len,
     femtovg_fonts |-> [i \in 1..femtovg_fonts_len |->
                           IF i <= Len(f.fonts) THEN f.fonts[i].font.femtovg_font_id
                           ELSE f.fonts[1].font.femtovg_font_id]]

-----------------------------------------------------------------------------
(* The state machine *)

Idle == [op |-> "idle"]
NoCall == [op |-> "none"]

\* the FontCache as the operators above take it
Cache ==
    [loaded_fonts |-> loaded_fonts, text_context |-> text_context,
     loaded_font_coverage |-> loaded_font_coverage]

\* FontCache::default(): nothing loaded, the system fonts in the database and
\* the set of their family names
Init ==
    /\ loaded_fonts = EmptyMap
    /\ loaded_font_coverage = EmptyMap
    /\ text_context = <<>>
    /\ available_fonts = SystemFonts
    /\ available_families = {SystemFonts[i].family : i \in DOMAIN SystemFonts}
    /\ last = Idle
    /\ prev = NoCall

\* the state after font() returned r: the cache it left and the record of the call
font_returns(r, request, scale_factor, reference_text, enumerated) ==
    /\ loaded_fonts' = r.cache.loaded_fonts
    /\ text_context' = r.cache.text_context
    /\ loaded_font_coverage' = r.cache.loaded_font_coverage
    /\ last' = [op |-> "font", asked |-> request, scale_factor |-> scale_factor,
                reference_text |-> reference_text, enumerated |-> enumerated,
                request |-> r.request, font |-> r.font, panicked |-> r.panicked,
                scripts_required |-> r.scripts_required,
                chars_required |-> r.chars_required,
                fallbacks |-> r.fallbacks, loads |-> r.loads, checks |-> r.checks]

\* a caller (text_size and the item renderers) calls FontCache::font
font(request, scale_factor, reference_text, enumerated) ==
    /\ last = Idle
    /\ font_returns(font_eval(Cache, available_fonts, available_families, request,
                              scale_factor, reference_text, enumerated),
                    request, scale_factor, reference_text, enumerated)
    /\ UNCHANGED <<available_fonts, available_families, prev>>

\* the caller of font() builds its paint from the Font it got
init_paint ==
    /\ last.op = "font"
    /\ ~last.panicked
    /\ last' = [op |-> "init_paint", font |-> last.font,
                femtovg_fonts |-> init_paint_eval(last.font).femtovg_fonts,
                panicked |-> init_paint_eval(last.font).panicked]
    /\ UNCHANGED <<loaded_fonts, loaded_font_coverage, text_context, available_fonts,
                   available_families, prev>>

\* the state after face_supports_char returned r for the ScaledFont's face
has_glyph_returns(r, face_id, ch) ==
    /\ last' = [op |-> "has_glyph_for_char", font |-> last.font, face |-> face_id,
                ch |-> ch, result |-> r.result, probes |-> r.probes]
    /\ loaded_font_coverage' = r.table

\* the caller asks a ScaledFont of the Font it holds: ScaledFont::has_glyph_for_char
has_glyph_for_char(i, ch) ==
    /\ last.op \in {"font", "has_glyph_for_char"}
    /\ i \in DOMAIN last.font.fonts
    /\ IF is_control(ch) \/ is_whitespace(ch)
       THEN /\ last' = [op |-> "has_glyph_for_char", font |-> last.font,
                        face |-> last.font.fonts[i].font.fontdb_face_id,
                        ch |-> ch, result |-> TRUE, probes |-> 0]
            /\ UNCHANGED loaded_font_coverage
       ELSE has_glyph_returns(
                face_supports_char(loaded_font_coverage, available_fonts,
                                   last.font.fonts[i].font.fontdb_face_id, ch),
                last.font.fonts[i].font.fontdb_face_id, ch)
    /\ UNCHANGED <<loaded_fonts, text_context, available_fonts, available_families, prev>>

\* register_font_from_memory: the faces of the data join the database
register_font_from_memory(data) ==
    /\ last = Idle
    /\ Len(available_fonts) < Len(SystemFonts) + MaxRegistered
    /\ available_fonts' = Append(available_fonts, data)
    /\ last' = [op |-> "register_font_from_memory", result |-> "Ok"]
    /\ UNCHANGED <<loaded_fonts, loaded_font_coverage, text_context,
                   available_families, prev>>

\* mutant: the faces of the database are not compared with the path
is_loaded_path_never(db, requested_path) == FALSE

\* the loop of register_font_from_path over the faces of the database: a face
\* loaded from a file (not from memory) has the requested path as its source
is_loaded_path(db, requested_path) ==
    \E i \in DOMAIN db : db[i].source # "binary" /\ db[i].source = requested_path

\* fontdb's load_font_file: the faces of the file the path leads to join the
\* database with the path as their source; a path that leads to no file is an
\* error
load_font_file(db, requested_path) ==
    LET file == canonicalize(requested_path)
    IN  IF file = None
        THEN [db |-> db, result |-> "Err"]
        ELSE [db |-> Append(db, [FontFiles[file[1]] EXCEPT !.source = requested_path]),
              result |-> "Ok"]

\* register_font_from_path: nothing to do when a face of the database was
\* loaded from the canonical path (the path itself when it cannot be
\* canonicalized), else the file is loaded or the error of reading it returned
register_font_from_path(path) ==
    /\ last = Idle
    /\ LET requested_path == unwrap_or(canonicalize(path), path)
           loaded == load_font_file(available_fonts, requested_path)
       IN  IF is_loaded_path(available_fonts, requested_path)
           THEN /\ last' = [op |-> "register_font_from_path", path |-> path,
                            result |-> "Ok", loaded |-> FALSE]
                /\ UNCHANGED available_fonts
           ELSE /\ Len(loaded.db) <= Len(SystemFonts) + MaxRegistered
                /\ available_fonts' = loaded.db
                /\ last' = [op |-> "register_font_from_path", path |-> path,
                            result |-> loaded.result,
                            loaded |-> loaded.result = "Ok"]
    /\ UNCHANGED <<loaded_fonts, loaded_font_coverage, text_context,
                   available_families, prev>>

\* a renderer calls layout_text_lines: the baseline is computed and the loop
\* over the lines starts with both cursors at their origin
layout_text_lines(a) ==
    /\ last = Idle
    /\ last' = [op |-> "layout_text_lines", pc |-> "lines", args |-> a,
                baseline_y |-> baseline_y(a), y |-> baseline_y(a), start |-> 0,
                lines |-> <<>>, branches |-> <<>>, break_text |-> <<>>]
    /\ UNCHANGED <<loaded_fonts, loaded_font_coverage, text_context, available_fonts,
                   available_families, prev>>

\* the next pass of the loop of layout_text_lines; break_index, a byte index
\* within the rest of the string, is what break_text answers when it is asked;
\* when the loop is left the call returns baseline_y
layout_line(break_index) ==
    /\ last.op = "layout_text_lines"
    /\ last.pc = "lines"
    /\ break_index \in 0..(Len(last.args.string) - last.start)
    /\ last' = lines_loop(last, last.args, break_index)
    /\ UNCHANGED <<loaded_fonts, loaded_font_coverage, text_context, available_fonts,
                   available_families, prev>>

\* what the caller remembers of a font() call: the request and the primary font
Remembered ==
    [op |-> "font", asked |-> last.asked, primary |-> last.font.fonts[1].font]

\* the call returns to the caller, which drops the Font (text_size) or keeps
\* the request and primary font in mind for a later comparison
Return(remember) ==
    /\ last # Idle
    /\ last.op = "layout_text_lines" => last.pc = "returned"
    /\ last' = Idle
    /\ prev' = IF remember /\ last.op = "font" /\ ~last.panicked THEN Remembered ELSE prev
    /\ UNCHANGED <<loaded_fonts, loaded_font_coverage, text_context, available_fonts,
                   available_families>>

-----------------------------------------------------------------------------
(* Inputs *)

RECURSIVE SeqsUpTo(_, _)
SeqsUpTo(S, n) ==
    IF n = 0 THEN {<<>>}
    ELSE LET shorter == SeqsUpTo(S, n - 1)
         IN  shorter \cup {Append(q, x) : q \in shorter, x \in S}

\* the family names a platform enumerator may return: two families of the
\* database and one that is not installed
CandidateFamilies == {"Han", "Sym", "Extra"}
CandidateLists == SeqsUpTo(CandidateFamilies, MaxCandidates)

\* the request with every field left to its default
DefaultRequest == FontRequest(None, None, None, None)

-----------------------------------------------------------------------------
(* Spec: the fallback walk.  The default request, every reference text of
   glyph-needing characters and every list of candidate families. *)

WalkTexts == SeqsUpTo({"a", "zh", "check"}, MaxTextLen)

Next ==
    \/ \E text \in WalkTexts, enumerated \in CandidateLists :
           font(DefaultRequest, 1, text, enumerated)
    \/ Return(FALSE)

Spec == Init /\ [][Next]_vars

-----------------------------------------------------------------------------
(* SpecQuery: coverage queries.  Every reference text over the whole alphabet,
   with has_glyph_for_char asked of the fonts of the returned Font. *)

QueryTexts == SeqsUpTo(Chars, MaxTextLen)
QueryLists == {<<>>, <<"Han">>, <<"Han", "Han">>}

NextQuery ==
    \/ \E text \in QueryTexts, enumerated \in QueryLists :
           font(DefaultRequest, 1, text, enumerated)
    \/ \E i \in 1..2, ch \in Chars : has_glyph_for_char(i, ch)
    \/ Return(FALSE)

SpecQuery == Init /\ [][NextQuery]_vars

-----------------------------------------------------------------------------
(* SpecCache: the loaded-font cache.  Requests for the default family and for
   a family that is not installed, at the default and at a bold weight, with
   fonts being registered in between. *)

CacheRequests ==
    {FontRequest(f, w, None, None) : f \in {None, Some("Extra")}, w \in {None, Some(700)}}
CacheTexts == {<<>>, <<"zh">>}
CacheLists == {<<"Han">>, <<"Han", "Han">>}

NextCache ==
    \/ \E request \in CacheRequests, text \in CacheTexts, enumerated \in CacheLists :
           font(request, 1, text, enumerated)
    \/ \E data \in MemoryFonts : register_font_from_memory(data)
    \/ \E path \in Paths : register_font_from_path(path)
    \/ Return(FALSE)

SpecCache == Init /\ [][NextCache]_vars

-----------------------------------------------------------------------------
(* SpecScale: pixel size, letter spacing and scale factor.  The caller may
   remember a call to compare a later one with it. *)

ScaleRequests ==
    {FontRequest(None, w, p, l) :
        w \in {None, Some(700)}, p \in {None, Some(10)}, l \in {None, Some(1)}}

NextScale ==
    \/ \E request \in ScaleRequests, scale_factor \in {1, 2} :
           font(request, scale_factor, <<>>, <<>>)
    \/ \E remember \in BOOLEAN : Return(remember)

SpecScale == Init /\ [][NextScale]_vars

-----------------------------------------------------------------------------
(* SpecSize: the size of the composite font.  Requests with and without a
   pixel size at two scale factors, with texts that need up to two fallbacks. *)

SizeRequests == {FontRequest(None, None, p, None) : p \in {None, Some(10)}}
SizeTexts == SeqsUpTo({"zh", "check"}, MaxTextLen)
SizeLists == {<<>>, <<"Han">>, <<"Sym", "Han">>}

NextSize ==
    \/ \E request \in SizeRequests, scale_factor \in {1, 2},
          text \in SizeTexts, enumerated \in SizeLists :
           font(request, scale_factor, text, enumerated)
    \/ Return(FALSE)

SpecSize == Init /\ [][NextSize]_vars

-----------------------------------------------------------------------------
(* SpecRegister: fonts registered by the application and the fallback
   candidates.  Requests for the default family and for an installed family,
   candidate lists without a repeated family that name an installed family and
   the family of the font file the application registers. *)

RegisterRequests == {DefaultRequest, FontRequest(Some("Han"), None, None, None)}
RegisterTexts == {<<"a">>, <<"zh">>}
RegisterLists == {<<"Extra">>, <<"Han">>, <<"Extra", "Han">>}

NextRegister ==
    \/ \E request \in RegisterRequests, text \in RegisterTexts,
          enumerated \in RegisterLists :
           font(request, 1, text, enumerated)
    \/ \E data \in MemoryFonts : register_font_from_memory(data)
    \/ \E path \in Paths : register_font_from_path(path)
    \/ Return(FALSE)

SpecRegister == Init /\ [][NextRegister]_vars

-----------------------------------------------------------------------------
(* SpecRepeat: repeated faces and earlier calls.  Requests for the default
   family and for Han, reference texts with both Latin characters, and
   candidate lists that may repeat a family and name the family of the primary
   face. *)

RepeatRequests == {DefaultRequest, FontRequest(Some("Han"), None, None, None)}
RepeatTexts == SeqsUpTo({"a", "thorn", "zh"}, MaxTextLen)
RepeatLists == SeqsUpTo({"Sans", "Han"}, MaxCandidates)

NextRepeat ==
    \/ \E request \in RepeatRequests, text \in RepeatTexts,
          enumerated \in RepeatLists :
           font(request, 1, text, enumerated)
    \/ Return(FALSE)

SpecRepeat == Init /\ [][NextRepeat]_vars

-----------------------------------------------------------------------------
(* SpecPaint: paints of long composite fonts.  A system with the sans-serif
   face and eight symbol fonts that each have one symbol the others lack;
   reference texts of the first n symbols and candidate lists of the first m
   symbol families. *)

PaintSymbols == <<"sym1", "sym2", "sym3", "sym4", "sym5", "sym6", "sym7", "sym8">>
PaintFamilies == <<"Sym1", "Sym2", "Sym3", "Sym4", "Sym5", "Sym6", "Sym7", "Sym8">>

PaintFonts ==
    <<Face("Sans", 400, {"a"}, "/sys/sans.ttf")>> \o
        [i \in DOMAIN PaintFamilies |->
            Face(PaintFamilies[i], 400, {PaintSymbols[i]}, "/sys/symbols.ttc")]

PaintTexts == {SubSeq(PaintSymbols, 1, n) : n \in 0..Len(PaintSymbols)}
PaintLists == {SubSeq(PaintFamilies, 1, m) : m \in 0..Len(PaintFamilies)}

InitPaint ==
    /\ loaded_fonts = EmptyMap
    /\ loaded_font_coverage = EmptyMap
    /\ text_context = <<>>
    /\ available_fonts = PaintFonts
    /\ available_families = {PaintFonts[i].family : i \in DOMAIN PaintFonts}
    /\ last = Idle
    /\ prev = NoCall

NextPaint ==
    \/ \E text \in PaintTexts, enumerated \in PaintLists :
           font(DefaultRequest, 1, text, enumerated)
    \/ init_paint
    \/ Return(FALSE)

SpecPaint == InitPaint /\ [][NextPaint]_vars

-----------------------------------------------------------------------------
(* SpecLayout: the line layout engine.  Every string of up to MaxStringLen
   characters in a narrow and a wide box, of one row or five, with every
   wrap, overflow and single-line mode, and every break the measurement
   backend may answer for the rest of the string. *)

LayoutChars == {"a", " ", "nl"}
LayoutStrings == SeqsUpTo(LayoutChars, MaxStringLen)
Alignments == {<<"left", "top">>, <<"center", "center">>, <<"right", "bottom">>}

LayoutCalls ==
    {LayoutArgs(string, max_width, max_height, al[1], al[2], wrap, elide,
                single_line, font_height, text_size_height) :
        string \in LayoutStrings, max_width \in {10, 40, 200}, max_height \in {20, 100},
        al \in Alignments, wrap \in BOOLEAN, elide \in BOOLEAN,
        single_line \in BOOLEAN, font_height \in {0, 20},
        text_size_height \in {20, 40}}

NextLayout ==
    \/ last = Idle /\ \E a \in LayoutCalls : layout_text_lines(a)
    \/ \E break_index \in 0..MaxStringLen : layout_line(break_index)
    \/ Return(FALSE)

SpecLayout == Init /\ [][NextLayout]_vars

-----------------------------------------------------------------------------
(* Claims *)

\* the family of the request has no face in the database (or no family is asked)
FamilyAbsent(db, request) ==
    request.family = None \/ FamilyFaces(db, request.family[1]) = {}

\* the step is a call of font() from the idle state
FontStep == last.op = "idle" /\ last'.op = "font"

\* load i of the call made by this step finds its key already resolved: by an
\* earlier call, or by an earlier load of the same call
ResolvedBefore(i) ==
    \/ last'.loads[i].key \in DOMAIN loaded_fonts
    \/ \E j \in 1..(i - 1) : last'.loads[j].key = last'.loads[i].key

\* the handle the key of load i was resolved to before that load
ResolvedHandle(i) ==
    IF last'.loads[i].key \in DOMAIN loaded_fonts
    THEN loaded_fonts[last'.loads[i].key]
    ELSE last'.loads[CHOOSE j \in 1..(i - 1) :
                        last'.loads[j].key = last'.loads[i].key].font

\* C1: load_single_font is idempotent per (family, weight) key.  Whatever
\* happened since the key was first resolved (other resolutions, font
\* registrations), a later load of the same key returns the same LoadedFont
\* (same face id, same shaping font id), queries the font database zero times
\* and registers nothing with the shaping backend; an entry of the cache is
\* never replaced.
C1_LoadIdempotent ==
    [][/\ \A k \in DOMAIN loaded_fonts :
              k \in DOMAIN loaded_fonts' /\ loaded_fonts'[k] = loaded_fonts[k]
       /\ FontStep =>
              /\ \A i \in DOMAIN last'.loads :
                     ResolvedBefore(i) =>
                         /\ last'.loads[i].font = ResolvedHandle(i)
                         /\ last'.loads[i].queries = 0
                         /\ last'.loads[i].registrations = 0
              /\ (\A i \in DOMAIN last'.loads : ResolvedBefore(i)) =>
                     text_context' = text_context]_vars

\* C1 witness: after a font was registered, a font() call whose primary load
\* was a cache hit and whose fallback walk loaded the same key twice
C1_Witness ==
    /\ last.op = "font"
    /\ Len(available_fonts) > Len(SystemFonts)
    /\ last.loads[1].hit
    /\ Len(last.loads) = 3
    /\ last.loads[2].key = last.loads[3].key

\* C2 as claimed: no face of the database is registered with the shaping
\* backend more than once (at most one shaping font id per face id)
C2_OneRegistrationPerFace ==
    \A i, j \in DOMAIN text_context : text_context[i] = text_context[j] => i = j

\* C2 amended: there is exactly one shaping registration per cache key.  Every
\* loaded font's shaping id names a registration of its own face, no two keys
\* share a shaping id, and no registration exists without a key; a face that
\* several keys resolve to is registered once for each of them.
C2_OneRegistrationPerKey ==
    /\ Len(text_context) = Cardinality(DOMAIN loaded_fonts)
    /\ \A k \in DOMAIN loaded_fonts :
           /\ loaded_fonts[k].femtovg_font_id \in DOMAIN text_context
           /\ text_context[loaded_fonts[k].femtovg_font_id] = loaded_fonts[k].fontdb_face_id
    /\ \A k1, k2 \in DOMAIN loaded_fonts :
           loaded_fonts[k1].femtovg_font_id = loaded_fonts[k2].femtovg_font_id => k1 = k2

\* C2 witness: two cache keys resolved to the same face, each with its own
\* shaping registration
C2_Witness ==
    \E k1, k2 \in DOMAIN loaded_fonts :
        /\ k1 # k2
        /\ loaded_fonts[k1].fontdb_face_id = loaded_fonts[k2].fontdb_face_id
        /\ loaded_fonts[k1].femtovg_font_id # loaded_fonts[k2].femtovg_font_id

\* the uncovered scripts and characters before / after check k of the call
UncoveredBefore(k) ==
    [scripts |-> DOMAIN last.checks[k].scripts_before, chars |-> last.checks[k].chars_before]
UncoveredAfter(k) ==
    [scripts |-> DOMAIN last.checks[k].scripts_after, chars |-> last.checks[k].chars_after]
NothingUncovered(u) == u.scripts = {} /\ u.chars = {}

\* check k removed at least one script or character
RemovedSomething(k) ==
    \/ Cardinality(UncoveredAfter(k).scripts) < Cardinality(UncoveredBefore(k).scripts)
    \/ Cardinality(UncoveredAfter(k).chars) < Cardinality(UncoveredBefore(k).chars)

\* the loaded fonts of the candidates whose check returned Improved, in the
\* order of the checks 2..n
RECURSIVE ImprovedFonts(_)
ImprovedFonts(n) ==
    IF n <= 1 THEN <<>>
    ELSE IF last.checks[n].result = "Improved"
         THEN Append(ImprovedFonts(n - 1), last.loads[n].font)
         ELSE ImprovedFonts(n - 1)

\* C3: in font() the known candidates are loaded and coverage-checked one
\* after the other in the order the enumerator returned them (check k+1 is
\* candidate k, none is skipped while the result is not Complete); the fonts of
\* the returned Font are the primary font followed by exactly the candidates
\* whose own check returned Improved, in candidate order; no candidate is
\* checked after a check returned Complete.
C3_WalkInOrder ==
    last.op = "font" =>
        /\ last.fallbacks =
               IF last.checks[1].result = "Complete" THEN <<>>
               ELSE SelectSeq(last.enumerated, LAMBDA f : f \in available_families)
        /\ Len(last.loads) = Len(last.checks)
        /\ last.checks[1].candidate = 0
        /\ \A k \in 2..Len(last.checks) :
               /\ last.checks[k].candidate = k - 1
               /\ k - 1 \in DOMAIN last.fallbacks
               /\ last.loads[k].key.family = last.fallbacks[k - 1]
               /\ last.checks[k].face = last.loads[k].font.fontdb_face_id
        /\ \A k \in 1..(Len(last.checks) - 1) : last.checks[k].result # "Complete"
        /\ \/ Len(last.checks) = 1 + Len(last.fallbacks)
           \/ last.checks[Len(last.checks)].result = "Complete"
        /\ [i \in DOMAIN last.font.fonts |-> last.font.fonts[i].font]
               = <<last.loads[1].font>> \o ImprovedFonts(Len(last.checks))

\* C3 witness: the first candidate found nothing and was left out, the second
\* improved and was kept
C3_Witness ==
    /\ last.op = "font"
    /\ Len(last.checks) = 3
    /\ last.checks[2].result = "Incomplete"
    /\ last.checks[3].result = "Improved"
    /\ Len(last.font.fonts) = 2
    /\ last.font.fonts[2].font = last.loads[3].font

\* C4: when the primary font covers part of the reference text and leaves
\* something uncovered, and the first candidate that covers anything covers
\* all that was left, the Font is exactly [primary, that candidate]: the
\* candidate whose check empties the uncovered sets is accepted.
C4_CompletingFallbackAccepted ==
    last.op = "font" =>
        \A k \in 2..Len(last.checks) :
            ( /\ RemovedSomething(1)
              /\ ~NothingUncovered(UncoveredAfter(1))
              /\ \A j \in 2..(k - 1) : ~RemovedSomething(j)
              /\ ~NothingUncovered(UncoveredBefore(k))
              /\ NothingUncovered(UncoveredAfter(k)) )
            => /\ Len(last.font.fonts) = 2
               /\ last.font.fonts[1].font = last.loads[1].font
               /\ last.font.fonts[2].font = last.loads[k].font
               /\ last.font.fonts[2].font.fontdb_face_id = last.checks[k].face

\* C4 witness: Latin and a Han character, the primary font covers the Latin
\* one, the first candidate the Han one
C4_Witness ==
    /\ last.op = "font"
    /\ DOMAIN last.scripts_required = {"Latin", "Han"}
    /\ Len(last.checks) >= 2
    /\ UncoveredAfter(1).scripts = {"Han"}
    /\ NothingUncovered(UncoveredAfter(2))
    /\ Len(last.font.fonts) = 2
    /\ last.font.fonts[2].font.fontdb_face_id # last.font.fonts[1].font.fontdb_face_id

\* C5 as claimed: within one font() call the uncovered sets never grow from
\* one check to the next, and once both are empty no further font is loaded
C5_NoLoadOnceCovered ==
    last.op = "font" =>
        /\ \A k \in DOMAIN last.checks :
               /\ UncoveredAfter(k).scripts \subseteq UncoveredBefore(k).scripts
               /\ UncoveredAfter(k).chars \subseteq UncoveredBefore(k).chars
        /\ \A k \in 1..(Len(last.checks) - 1) :
               UncoveredBefore(k + 1) = UncoveredAfter(k)
        /\ \A k \in DOMAIN last.checks :
               NothingUncovered(UncoveredAfter(k)) => Len(last.loads) <= k

\* C6 as claimed: Complete exactly when nothing is left uncovered after the
\* check, Improved exactly when something was removed and something is left,
\* Incomplete exactly when nothing was removed and something is left
C6_ResultAsClaimed ==
    last.op = "font" =>
        \A k \in DOMAIN last.checks :
            /\ last.checks[k].result = "Complete" <=> NothingUncovered(UncoveredAfter(k))
            /\ last.checks[k].result = "Improved" <=>
                   (RemovedSomething(k) /\ ~NothingUncovered(UncoveredAfter(k)))
            /\ last.checks[k].result = "Incomplete" <=>
                   (~RemovedSomething(k) /\ ~NothingUncovered(UncoveredAfter(k)))

\* C6 amended: Complete exactly when nothing was uncovered before the check
\* (so nothing is after it), Improved exactly when the check removed at least
\* one script or character, whether or not something is still uncovered,
\* Incomplete exactly when the check removed nothing and something is still
\* uncovered.
C6_ResultOfCheck ==
    last.op = "font" =>
        \A k \in DOMAIN last.checks :
            /\ last.checks[k].result \in {"Complete", "Improved", "Incomplete"}
            /\ last.checks[k].result = "Complete" <=> NothingUncovered(UncoveredBefore(k))
            /\ last.checks[k].result = "Improved" <=> RemovedSomething(k)
            /\ last.checks[k].result = "Incomplete" <=>
                   (~RemovedSomething(k) /\ ~NothingUncovered(UncoveredAfter(k)))

\* C6 witness: a check that removed the last uncovered character (only a
\* character, no script) and returned Improved
C6_Witness ==
    /\ last.op = "font"
    /\ \E k \in DOMAIN last.checks :
           /\ UncoveredBefore(k).scripts = {}
           /\ UncoveredBefore(k).chars # {}
           /\ NothingUncovered(UncoveredAfter(k))
           /\ last.checks[k].result = "Improved"

\* the coverage table `table` holds a boolean for (face f, character ch): for
\* the script of ch, or for ch itself when its script is checked per character
Recorded(table, f, ch) ==
    /\ f \in DOMAIN table
    /\ IF PerCharScript(script(ch))
       THEN ch \in DOMAIN table[f].exact_glyph_coverage
       ELSE script(ch) \in DOMAIN table[f].supported_scripts

RecordedValue(table, f, ch) ==
    IF PerCharScript(script(ch))
    THEN table[f].exact_glyph_coverage[ch]
    ELSE table[f].supported_scripts[script(ch)]

\* every entry of the coverage table is still there, unchanged, after the step
CoverageKept ==
    \A f \in DOMAIN loaded_font_coverage :
        /\ f \in DOMAIN loaded_font_coverage'
        /\ \A s \in DOMAIN loaded_font_coverage[f].supported_scripts :
               /\ s \in DOMAIN loaded_font_coverage'[f].supported_scripts
               /\ loaded_font_coverage'[f].supported_scripts[s]
                      = loaded_font_coverage[f].supported_scripts[s]
        /\ \A ch \in DOMAIN loaded_font_coverage[f].exact_glyph_coverage :
               /\ ch \in DOMAIN loaded_font_coverage'[f].exact_glyph_coverage
               /\ loaded_font_coverage'[f].exact_glyph_coverage[ch]
                      = loaded_font_coverage[f].exact_glyph_coverage[ch]

\* check k of the call made by this step finds (its face, x) recorded: by an
\* earlier operation, or by an earlier check of the same face in this call
ScriptKnownAt(k, s) ==
    LET f == last'.checks[k].face
    IN  \/ f \in DOMAIN loaded_font_coverage
           /\ s \in DOMAIN loaded_font_coverage[f].supported_scripts
        \/ \E j \in 1..(k - 1) : last'.checks[j].face = f
                                  /\ s \in last'.checks[j].probed_scripts
CharKnownAt(k, ch) ==
    LET f == last'.checks[k].face
    IN  \/ f \in DOMAIN loaded_font_coverage
           /\ ch \in DOMAIN loaded_font_coverage[f].exact_glyph_coverage
        \/ \E j \in 1..(k - 1) : last'.checks[j].face = f
                                  /\ ch \in last'.checks[j].probed_chars

\* C7: the coverage table is monotonic.  No step changes or removes a
\* recorded boolean; a has_glyph_for_char query for a recorded (face, script
\* or character) returns the recorded boolean with zero probes and leaves the
\* table as it is; a coverage check of font() does not probe what is recorded
\* and keeps a script or character uncovered exactly when the recorded
\* boolean is false.
C7_CoverageMonotonic ==
    [][/\ CoverageKept
       /\ (last'.op = "has_glyph_for_char" /\ NeedsGlyph(last'.ch)
           /\ Recorded(loaded_font_coverage, last'.face, last'.ch)) =>
              /\ last'.result = RecordedValue(loaded_font_coverage, last'.face, last'.ch)
              /\ last'.probes = 0
              /\ loaded_font_coverage' = loaded_font_coverage
       /\ FontStep =>
              \A k \in DOMAIN last'.checks :
                  /\ \A s \in DOMAIN last'.checks[k].scripts_before :
                         ScriptKnownAt(k, s) =>
                             /\ s \notin last'.checks[k].probed_scripts
                             /\ s \in DOMAIN last'.checks[k].scripts_after <=>
                                    ~loaded_font_coverage'[last'.checks[k].face]
                                         .supported_scripts[s]
                  /\ \A ch \in last'.checks[k].chars_before :
                         CharKnownAt(k, ch) =>
                             /\ ch \notin last'.checks[k].probed_chars
                             /\ ch \in last'.checks[k].chars_after <=>
                                    ~loaded_font_coverage'[last'.checks[k].face]
                                         .exact_glyph_coverage[ch]]_vars

\* C7 witness: a query answered from the table without a probe, with the
\* boolean recorded for the script from another sample character (a fresh
\* probe of this character would answer differently)
C7_Witness ==
    /\ last.op = "has_glyph_for_char"
    /\ NeedsGlyph(last.ch)
    /\ last.probes = 0
    /\ last.result # glyph_index(available_fonts, last.face, last.ch)

\* the control and white space characters of the alphabet
ControlOrWhitespace == {" ", "bel"}

\* C8: control and white space characters never reach the coverage table.
\* has_glyph_for_char answers true for them for every font, with no probe and
\* the table unchanged; font() puts none of them into the required scripts'
\* samples or the required characters, and no table entry is ever made for one.
C8_ControlAndWhitespace ==
    [][/\ (last'.op = "has_glyph_for_char" /\ last'.ch \in ControlOrWhitespace) =>
              /\ last'.result = TRUE
              /\ last'.probes = 0
              /\ loaded_font_coverage' = loaded_font_coverage
       /\ last'.op = "font" =>
              /\ last'.chars_required \cup Range(last'.scripts_required)
                     \subseteq Range(last'.reference_text) \ ControlOrWhitespace
              /\ \A ch \in Range(last'.reference_text) \ ControlOrWhitespace :
                     \/ ch \in last'.chars_required
                     \/ script(ch) \in DOMAIN last'.scripts_required
       /\ \A f \in DOMAIN loaded_font_coverage' :
              \A ch \in DOMAIN loaded_font_coverage'[f].exact_glyph_coverage :
                  ch \notin ControlOrWhitespace]_vars

\* C8 witness: has_glyph_for_char was asked about the space of a font whose
\* face has no glyph for it
C8_Witness ==
    /\ last.op = "has_glyph_for_char"
    /\ last.ch = " "
    /\ last.result = TRUE
    /\ ~glyph_index(available_fonts, last.face, last.ch)

\* family and weight of a request after normalisation (the weight defaults to
\* DEFAULT_FONT_WEIGHT)
FamilyAndWeight(request) ==
    [family |-> request.family, weight |-> unwrap_or(request.weight, DEFAULT_FONT_WEIGHT)]

\* C9: pixel size, letter spacing and scale factor play no part in which font
\* is loaded.  A font() call with the family and weight of any earlier call
\* gets the same LoadedFont (same face id, same shaping font id) by a cache
\* hit, without a query or a registration, so there is one load per (family,
\* weight); the pixel size shows only in the ScaledFont entries and in
\* Font.pixel_size, as the requested size (or the default) times the scale.
C9_SizeIndependent ==
    last.op = "font" =>
        /\ prev.op = "font" /\ FamilyAndWeight(prev.asked) = FamilyAndWeight(last.asked) =>
               /\ last.font.fonts[1].font = prev.primary
               /\ last.loads[1].hit
               /\ last.loads[1].queries = 0
               /\ last.loads[1].registrations = 0
        /\ Len(text_context) = Cardinality(DOMAIN loaded_fonts)
        /\ DOMAIN loaded_fonts \subseteq [family : {""}, weight : {DEFAULT_FONT_WEIGHT, 700}]
        /\ \A i \in DOMAIN last.font.fonts :
               last.font.fonts[i].pixel_size =
                   unwrap_or(last.asked.pixel_size, DEFAULT_FONT_SIZE) * last.scale_factor
        /\ last.font.pixel_size =
               unwrap_or(last.asked.pixel_size, DEFAULT_FONT_SIZE) * last.scale_factor

\* C9 witness: the call and the remembered earlier call have the same family
\* and weight and differ in pixel size, letter spacing and scale
C9_Witness ==
    /\ last.op = "font"
    /\ prev.op = "font"
    /\ FamilyAndWeight(prev.asked) = FamilyAndWeight(last.asked)
    /\ prev.asked.pixel_size # last.asked.pixel_size
    /\ prev.asked.letter_spacing # last.asked.letter_spacing
    /\ last.font.pixel_size = 20
    /\ last.font.fonts[1].font = prev.primary

\* C10 as claimed: a primary request whose family is absent or not in the
\* database does not fail, returns the face the generic sans-serif query
\* yields for the same weight, and the result is cached under the requested key
C10_SansSerifSubstitute ==
    (last.op = "font" /\ FamilyAbsent(available_fonts, last.asked)) =>
        /\ ~last.panicked
        /\ Some(last.font.fonts[1].font.fontdb_face_id) =
               query(available_fonts, None, AsU16(FamilyAndWeight(last.asked).weight))
        /\ last.loads[1].key \in DOMAIN loaded_fonts
        /\ loaded_fonts[last.loads[1].key] = last.font.fonts[1].font

\* C10 amended: such a request never fails; when its key is not cached yet it
\* gets the face the generic sans-serif query yields for the same weight at
\* that moment, and that font is cached under the requested key; when its key
\* is cached already it gets the cached font, whatever the sans-serif query
\* would yield now.
C10_SubstituteOnMiss ==
    [][(FontStep /\ FamilyAbsent(available_fonts, last'.asked)) =>
           /\ ~last'.panicked
           /\ IF last'.loads[1].key \in DOMAIN loaded_fonts
              THEN last'.font.fonts[1].font = loaded_fonts[last'.loads[1].key]
              ELSE Some(last'.font.fonts[1].font.fontdb_face_id) =
                       query(available_fonts, None,
                             AsU16(FamilyAndWeight(last'.asked).weight))
           /\ last'.loads[1].key \in DOMAIN loaded_fonts'
           /\ loaded_fonts'[last'.loads[1].key] = last'.font.fonts[1].font]_vars

\* C10 witness: a bold request for a family that is not installed, resolved by
\* a second query to the bold sans-serif face registered earlier
C10_Witness ==
    /\ last.op = "font"
    /\ last.asked.family = Some("Extra")
    /\ FamilyFaces(available_fonts, "Extra") = {}
    /\ ~last.loads[1].hit
    /\ last.loads[1].queries = 2
    /\ available_fonts[last.font.fonts[1].font.fontdb_face_id].family = sans_serif_family
    /\ available_fonts[last.font.fonts[1].font.fontdb_face_id].weight = 700

\* C11: every Font returned by font() has at least one entry, the first entry
\* is the font the (normalised) primary request resolved to, which is the font
\* cached under the request's key, and every entry carries the pixel size of
\* the Font: the requested pixel size (12 when absent) times the scale factor.
C11_PrimaryFirstSameSize ==
    (last.op = "font" /\ ~last.panicked) =>
        /\ Len(last.font.fonts) >= 1
        /\ last.loads[1].key =
               [family |-> unwrap_or(last.asked.family, ""),
                weight |-> unwrap_or(last.asked.weight, 400)]
        /\ last.font.fonts[1].font = last.loads[1].font
        /\ last.font.fonts[1].font = loaded_fonts[last.loads[1].key]
        /\ last.font.pixel_size =
               (IF last.asked.pixel_size = None THEN 12 ELSE last.asked.pixel_size[1])
                   * last.scale_factor
        /\ \A i \in DOMAIN last.font.fonts :
               last.font.fonts[i].pixel_size = last.font.pixel_size

\* C11 witness: a Font of three entries for a request without a pixel size at
\* scale factor 2, every entry at 24 pixels
C11_Witness ==
    /\ last.op = "font"
    /\ last.asked.pixel_size = None
    /\ last.scale_factor = 2
    /\ Len(last.font.fonts) = 3
    /\ \A i \in 1..3 : last.font.fonts[i].pixel_size = 24

\* the family names of the faces of the database
FamiliesOf(db) == {db[i].family : i \in DOMAIN db}

\* C12 as claimed: whatever was registered before, when the enumerator is
\* asked, a family it suggests is kept as a fallback candidate if and only if
\* the family has a face in the font database at the time of the call
C12_KnownIffInDatabase ==
    (last.op = "font" /\ ~last.panicked /\ last.checks[1].result # "Complete") =>
        last.fallbacks =
            SelectSeq(last.enumerated, LAMBDA f : f \in FamiliesOf(available_fonts))

\* C13 as claimed: within one font() call no font is loaded or coverage-checked
\* twice; the candidate list has no repeated family and no candidate resolves
\* to the face used as primary
C13_NoFontTwice ==
    (last.op = "font" /\ ~last.panicked) =>
        /\ \A i, j \in DOMAIN last.fallbacks :
               last.fallbacks[i] = last.fallbacks[j] => i = j
        /\ \A i, j \in DOMAIN last.loads :
               last.loads[i].font = last.loads[j].font => i = j
        /\ \A i, j \in DOMAIN last.checks :
               last.checks[i].face = last.checks[j].face => i = j

\* the step is a call of register_font_from_path from the idle state
RegisterPathStep == last.op = "idle" /\ last'.op = "register_font_from_path"

\* the canonical form of the path registered by this step, the path itself
\* when it has none
CanonicalPath(path) == IF canonicalize(path) = None THEN path ELSE canonicalize(path)[1]

\* the faces of the database that were loaded from the file `source`
FacesFrom(db, source) == {i \in DOMAIN db : db[i].source = source}

\* C18: register_font_from_path is idempotent.  Registering a path whose
\* canonical form is the source path of a face of the database returns Ok and
\* leaves the database as it is; a registration that returned Ok for a font
\* file left a face with the canonical path as its source, so that no file
\* ever has two faces in the database, however often and under whichever of
\* its names it is registered.
C18_RegisterPathIdempotent ==
    [][/\ RegisterPathStep =>
              /\ FacesFrom(available_fonts, CanonicalPath(last'.path)) # {} =>
                     /\ last'.result = "Ok"
                     /\ available_fonts' = available_fonts
              /\ (last'.result = "Ok") =>
                     FacesFrom(available_fonts', CanonicalPath(last'.path)) # {}
       /\ \A p \in Paths :
              Cardinality(FacesFrom(available_fonts', CanonicalPath(p))) <= 1]_vars

\* C18 witness: the font file was registered, and registered again through a
\* symbolic link to it, with one face of the file in the database
C18_Witness ==
    /\ last.op = "register_font_from_path"
    /\ last.path = "/app/link.ttf"
    /\ last.result = "Ok"
    /\ ~last.loaded
    /\ Cardinality(FacesFrom(available_fonts, "/app/extra.ttf")) = 1
    /\ Len(available_fonts) = Len(SystemFonts) + 1

\* a layout_text_lines call is in progress or has returned
InLayout == last.op = "layout_text_lines"
LayoutReturned == InLayout /\ last.pc = "returned"

\* C14: every line reported to the sink, with measured width Lw in a box of
\* width W, has x = 0 for left alignment, (W - min(Lw, W)) / 2 for center and
\* W - min(Lw, W) for right (0, 75 and 150 for W = 200 and Lw = 50), and so
\* 0 <= x and x + min(Lw, W) <= W.
C14_HorizontalOrigin ==
    InLayout =>
        \A k \in DOMAIN last.lines :
            LET W == last.args.max_width
                Lw == last.lines[k].width
                shown == IF Lw <= W THEN Lw ELSE W
                x == last.lines[k].x
                alignment == last.args.horizontal_alignment
            IN  /\ alignment = "left" => x = 0
                /\ alignment = "center" => 2 * x = W - shown
                /\ alignment = "right" => x = W - shown
                /\ (W = 200 /\ Lw = 50) =>
                       x = (CASE alignment = "left" -> 0
                              [] alignment = "center" -> 75
                              [] alignment = "right" -> 150)
                /\ 0 <= x
                /\ x + shown <= W

\* C14 witness: a centered line of width 50 in a box of width 200, at x = 75
C14_Witness ==
    /\ LayoutReturned
    /\ last.args.horizontal_alignment = "center"
    /\ last.args.max_width = 200
    /\ \E k \in DOMAIN last.lines : last.lines[k].width = 50 /\ last.lines[k].x = 75

\* C15: the value layout_text_lines returns is 0 for top alignment, (H - h) / 2
\* for center and H - h for bottom, with H the box height and h the text
\* height (the font height in single-line mode, else the height text_size
\* measures); 0, 40 and 80 for H = 100 and h = 20.  The first reported line is
\* at that y, and the value is the same however many lines are reported.
C15_BaselineOrigin ==
    InLayout =>
        LET H == last.args.max_height
            h == IF last.args.single_line THEN last.args.font_height
                 ELSE last.args.text_size_height
            alignment == last.args.vertical_alignment
        IN  /\ alignment = "top" => last.baseline_y = 0
            /\ alignment = "center" => 2 * last.baseline_y = H - h
            /\ alignment = "bottom" => last.baseline_y = H - h
            /\ (H = 100 /\ h = 20) =>
                   last.baseline_y = (CASE alignment = "top" -> 0
                                        [] alignment = "center" -> 40
                                        [] alignment = "bottom" -> 80)
            /\ last.lines # <<>> => last.lines[1].y = last.baseline_y

\* C15 witness: a text two rows high at the bottom of a box of height 100,
\* returned at 60 with two lines reported, the first at y = 60
C15_Witness ==
    /\ LayoutReturned
    /\ last.args.vertical_alignment = "bottom"
    /\ last.args.max_height = 100
    /\ ~last.args.single_line
    /\ last.args.text_size_height = 40
    /\ last.baseline_y = 60
    /\ Len(last.lines) = 2
    /\ last.lines[1].y = 60

\* the string has neither a line feed nor a space and is wider than the box
UnbreakableAndTooWide(a) ==
    /\ \A i \in DOMAIN a.string : a.string[i] = "a"
    /\ measure_text(a.string) > a.max_width

\* the text is the first n characters of the string followed by an ellipsis
PrefixWithEllipsis(text, string) ==
    /\ text # <<>>
    /\ text[Len(text)] = "ellipsis"
    /\ Len(text) - 1 <= Len(string)
    /\ SubSeq(text, 1, Len(text) - 1) = SubSeq(string, 1, Len(text) - 1)

\* C16 as claimed: a string without line feed or space that is wider than the
\* box, laid out with word wrap and elide in a box with room for at least one
\* line (of a height above 0), is reported as one line, a prefix of the string
\* followed by an ellipsis, no wider than the box, and the byte cursor ends at
\* the length of the string
C16_ElidedPrefix ==
    ( /\ LayoutReturned
      /\ UnbreakableAndTooWide(last.args)
      /\ last.args.wrap /\ last.args.elide
      /\ last.args.font_height > 0
      /\ last.baseline_y + last.args.font_height <= last.args.max_height ) =>
        /\ Len(last.lines) = 1
        /\ PrefixWithEllipsis(last.lines[1].text, last.args.string)
        /\ measure_text(last.lines[1].text) <= last.args.max_width
        /\ last.start = Len(last.args.string)

\* the width of the word the rest of the string starts with
LeadingWordWidth(string, start) ==
    LET stops == {i \in (start + 1)..Len(string) : string[i] # "a"}
        end == IF stops = {} THEN Len(string) ELSE Min(stops) - 1
    IN  measure_text(SubSeq(string, start + 1, end))

\* C17 as claimed: when wrapping is active and the break search answers
\* offset 0 for the rest of the string, which starts with a word wider than
\* the box, a line is still reported for that text
C17_DegenerateBreakEmits ==
    ( /\ LayoutReturned
      /\ last.break_text # <<>>
      /\ last.break_text[Len(last.break_text)] = 0
      /\ LeadingWordWidth(last.args.string, last.start) > last.args.max_width ) =>
        \E k \in DOMAIN last.lines : last.lines[k].start = last.start

\* the step is a pass of the loop of layout_text_lines
LoopStep == InLayout /\ last.pc = "lines" /\ last'.op = "layout_text_lines"

\* C19: layout_text_lines terminates, whatever the string, the box, the modes
\* and the answers of the backend (a break at offset 0 and a font height of 0
\* included): every pass of the loop either leaves the loop, without a line,
\* or reports one line and moves the byte cursor strictly forward, within the
\* string; so there are never more lines than bytes.
C19_LoopAdvances ==
    [][/\ LoopStep =>
              \/ /\ last'.pc = "returned"
                 /\ last'.lines = last.lines
                 /\ last'.start = last.start
              \/ /\ last'.pc = "lines"
                 /\ Len(last'.lines) = Len(last.lines) + 1
                 /\ last'.start > last.start
                 /\ last'.start <= Len(last.args.string)
       /\ last'.op = "layout_text_lines" =>
              /\ Len(last'.lines) <= last'.start
              /\ last'.start <= Len(last'.args.string)]_vars

\* C19 witness: with a font height of 0 in a box of height 20 two lines were
\* reported, then the break search answered offset 0 and the call returned
C19_Witness ==
    /\ LayoutReturned
    /\ last.args.font_height = 0
    /\ Len(last.lines) = 2
    /\ last.break_text = <<1, 1, 0>>
    /\ last.start < Len(last.args.string)

\* C20: every reported line fits the box vertically, y + font height <= box
\* height, and line k (from 0) is at baseline_y + k * font height, whichever
\* branch reported it.
C20_LinesOnTheGrid ==
    InLayout =>
        \A k \in DOMAIN last.lines :
            /\ last.lines[k].y + last.args.font_height <= last.args.max_height
            /\ last.lines[k].y = last.baseline_y + (k - 1) * last.args.font_height

\* C20 witness: a wrapped line followed by an elided one, 20 apart
C20_Witness ==
    /\ LayoutReturned
    /\ last.args.font_height = 20
    /\ last.branches = <<"wrapped", "elided">>
    /\ last.lines[2].y = last.lines[1].y + 20

\* the byte offset at which the slice consumed for line k ends: the start of
\* the next line, or the byte cursor for the last line
ConsumedEnd(k) ==
    IF k < Len(last.lines) THEN last.lines[k + 1].start ELSE last.start

\* the slice of the string consumed for line k
ConsumedSlice(k) ==
    SubSeq(last.args.string, last.lines[k].start + 1, ConsumedEnd(k))

\* text is the first characters of slice
IsPrefix(text, slice) ==
    /\ Len(text) <= Len(slice)
    /\ text = SubSeq(slice, 1, Len(text))

\* C21: the start offsets reported to the sink begin at 0 and are strictly
\* increasing, and each line starts where the slice consumed for the line
\* before it ends: a wrapped or plain line is exactly the slice from its start
\* to the next start (to the byte cursor for the last line), a truncated line
\* is a prefix of that slice and an elided one a prefix followed by an
\* ellipsis, so the consumed slices partition a prefix of the string and text
\* dropped by truncation counts as consumed.
C21_ConsumedSlicesPartition ==
    InLayout =>
        /\ last.lines # <<>> => last.lines[1].start = 0
        /\ \A k \in DOMAIN last.lines :
               LET text == last.lines[k].text
                   branch == last.branches[k]
               IN  /\ last.lines[k].start < ConsumedEnd(k)
                   /\ ConsumedEnd(k) <= Len(last.args.string)
                   /\ branch \in {"wrapped", "plain"} => text = ConsumedSlice(k)
                   /\ branch = "truncated" => IsPrefix(text, ConsumedSlice(k))
                   /\ branch = "elided" =>
                          /\ text # <<>>
                          /\ text[Len(text)] = "ellipsis"
                          /\ IsPrefix(SubSeq(text, 1, Len(text) - 1), ConsumedSlice(k))

\* C21 witness: a wrapped line of one byte from offset 0, then from offset 1
\* the last row, elided, which consumes one byte more; the third byte is
\* left unconsumed
C21_Witness ==
    /\ LayoutReturned
    /\ last.branches = <<"wrapped", "elided">>
    /\ last.lines[1].start = 0
    /\ last.lines[2].start = 1
    /\ last.start = 2
    /\ Len(last.args.string) = 3

\* every wrapped line ends at the end of the string or behind a space or a
\* line feed, as the break search of the backend answers
BreaksAtWordEnds ==
    \A k \in DOMAIN last.lines :
        last.branches[k] = "wrapped" =>
            \/ ConsumedEnd(k) = Len(last.args.string)
            \/ last.args.string[ConsumedEnd(k)] \in {" ", "nl"}

\* C22 as claimed: in single-line mode the whole rest of the string is taken
\* as the line whatever the wrap mode: at most one line is reported, it starts
\* at offset 0, and after it the byte cursor is at the length of the string
\* (for a font height above 0 and breaks at word ends)
C22_SingleLineTakesAll ==
    ( /\ LayoutReturned
      /\ last.args.single_line
      /\ last.args.font_height > 0
      /\ BreaksAtWordEnds ) =>
        /\ Len(last.lines) <= 1
        /\ last.lines # <<>> =>
               /\ last.lines[1].start = 0
               /\ last.start = Len(last.args.string)

\* C23 as claimed: without eliding, a line wider than the box width W is
\* reported truncated, without ellipsis, just before the first glyph whose
\* accumulated advance exceeds W: the text is a prefix of the line no wider
\* than W (a glyph that ends exactly at W is kept), and the glyph behind it,
\* if the text is cut, ends past W
C23_TruncatedAtOverflow ==
    ( InLayout /\ ~last.args.elide ) =>
        \A k \in DOMAIN last.lines :
            ( /\ last.branches[k] # "wrapped"
              /\ last.lines[k].width > last.args.max_width ) =>
                LET text == last.lines[k].text
                    line == ConsumedSlice(k)
                IN  /\ last.branches[k] = "truncated"
                    /\ IsPrefix(text, line)
                    /\ \A i \in DOMAIN text : text[i] # "ellipsis"
                    /\ measure_text(text) <= last.args.max_width
                    /\ Len(text) < Len(line) =>
                           measure_text(SubSeq(line, 1, Len(text) + 1)) > last.args.max_width

\* the text reported for line k leaves out part of the slice consumed for it
IsCut(k) == last.branches[k] \in {"truncated", "elided"}

\* the break search answers offset 0 only for a word wider than the box
BreakAtZeroForWideWord ==
    (last.break_text # <<>> /\ last.break_text[Len(last.break_text)] = 0) =>
        LeadingWordWidth(last.args.string, last.start) > last.args.max_width

\* C27 as claimed: with overflow mode elide, whenever layout_text_lines
\* finishes with part of the string not shown, bytes left unconsumed or a line
\* cut, the last line reported ends with the ellipsis (for a font height
\* above 0, at least one reported line, and break answers of the backend at
\* word ends, 0 only for a word wider than the box)
C27_EllipsisWhenHidden ==
    ( /\ LayoutReturned
      /\ last.args.elide
      /\ last.args.font_height > 0
      /\ last.lines # <<>>
      /\ BreaksAtWordEnds
      /\ BreakAtZeroForWideWord
      /\ \/ last.start < Len(last.args.string)
         \/ \E k \in DOMAIN last.lines : IsCut(k) ) =>
        LET text == last.lines[Len(last.lines)].text
        IN  text # <<>> /\ text[Len(text)] = "ellipsis"

\* C24: no Font returned by font() holds the same face of the font database
\* twice, also when the candidate list repeats a family or names the family
\* of the primary face: a face whose coverage was checked earlier in the call
\* is never Improved when it is checked again.
C24_NoFaceTwice ==
    (last.op = "font" /\ ~last.panicked) =>
        /\ \A i, j \in DOMAIN last.font.fonts :
               last.font.fonts[i].font.fontdb_face_id =
                   last.font.fonts[j].font.fontdb_face_id => i = j
        /\ \A i, j \in DOMAIN last.checks :
               (i < j /\ last.checks[i].face = last.checks[j].face) =>
                   last.checks[j].result # "Improved"

\* C24 witness: the primary face covered part of the text, the first candidate
\* resolved to the same face and was checked again with characters still
\* uncovered, and a later candidate was accepted
C24_Witness ==
    /\ last.op = "font" /\ ~last.panicked
    /\ Len(last.checks) = 3
    /\ last.checks[1].result = "Improved"
    /\ last.checks[2].face = last.checks[1].face
    /\ DOMAIN last.checks[2].scripts_before # {}
    /\ last.checks[2].result = "Incomplete"
    /\ last.checks[3].result = "Improved"
    /\ Len(last.font.fonts) = 2

\* a cache on which nothing was resolved or checked yet
FreshCache ==
    [loaded_fonts |-> EmptyMap, text_context |-> <<>>,
     loaded_font_coverage |-> EmptyMap]

\* the faces of the font database a Font is composed of, in order
FacesOf(f) == [i \in DOMAIN f.fonts |-> f.fonts[i].font.fontdb_face_id]

\* C25 as claimed: the list of faces of the Font that font(request, scale,
\* text) returns is determined by the request, the text, the font database
\* and the candidate list alone: the call on the cache as earlier calls left
\* it returns the same faces as the same call on a fresh cache
C25_HistoryIndependent ==
    (last.op = "font" /\ ~last.panicked) =>
        FacesOf(last.font) =
            FacesOf(font_eval(FreshCache, available_fonts, available_families,
                              last.asked, last.scale_factor, last.reference_text,
                              last.enumerated).font)

\* the request a cache key stands for
KeyRequest(key) ==
    FontRequest(IF key.family = "" THEN None ELSE Some(key.family),
                Some(key.weight), None, None)

\* C26 as claimed: after any interleaving of registrations and resolutions,
\* the LoadedFont the cache returns for a (family, weight) key is the face a
\* fresh query of the font database for that key returns at that moment
C26_CacheFollowsDatabase ==
    (last.op = "font" /\ ~last.panicked) =>
        \A i \in DOMAIN last.loads :
            Some(last.loads[i].font.fontdb_face_id) =
                ResolveFace(available_fonts, KeyRequest(last.loads[i].key))

\* C26 amended: the LoadedFont the cache returns for a key is the face the
\* font database resolved the key to when the key was first requested: a load
\* of a key not resolved before gets the face the query yields at that moment,
\* and every later load of the key gets that same LoadedFont, whatever was
\* registered since (a family registered after it was first requested stays
\* shadowed by the cached sans-serif substitute).
C26_FirstResolutionKept ==
    [][(FontStep /\ ~last'.panicked) =>
           \A i \in DOMAIN last'.loads :
               /\ last'.loads[i].hit <=> ResolvedBefore(i)
               /\ IF ResolvedBefore(i)
                  THEN last'.loads[i].font = ResolvedHandle(i)
                  ELSE Some(last'.loads[i].font.fontdb_face_id) =
                           ResolveFace(available_fonts, KeyRequest(last'.loads[i].key))]_vars

\* C26 witness: the family Extra was requested before it was installed, then
\* registered from its file, and requested again: the call is a cache hit on
\* the sans-serif substitute although the database now has a face of Extra
C26_Witness ==
    /\ last.op = "font"
    /\ last.asked.family = Some("Extra")
    /\ FamilyFaces(available_fonts, "Extra") # {}
    /\ last.loads[1].hit
    /\ available_fonts[last.font.fonts[1].font.fontdb_face_id].family = sans_serif_family

\* C28 as claimed: init_paint never writes outside its array of 8 font ids:
\* every Font that font() returns has at most 8 entries, the primary font and
\* the accepted fallbacks, for any reference text and any number of candidates
C28_AtMostEightFonts ==
    /\ (last.op = "font" /\ ~last.panicked) => Len(last.font.fonts) <= femtovg_fonts_len
    /\ last.op = "init_paint" => ~last.panicked

====
